---------------------------- MODULE Spec2Model ----------------------------
(***************************************************************************)
(* Model of streamlit_app.py, the earthquake dashboard script: one run of  *)
(* the script is a straight line of statements over the DataFrame df.      *)
(*   fetch_earthquake_data (18-35)  ->  time filter (50-54)                *)
(*   ->  key metrics (59-65)  ->  marker_size (68-70)                      *)
(*   ->  hour / hourly_counts (134-135)                                    *)
(*   ->  hour_bin / hourly_series (162-169)  ->  rolling_avg (170)         *)
(*   ->  magnitude_bin / heatmap_data (187-190)  ->  refresh (199-200)     *)
(* pc is the statement the run is at.  An uncaught exception ends the run: *)
(* fault becomes its type and pc stays at the statement that raised.       *)
(* The plotly / streamlit drawing calls between these statements only read *)
(* df and are not part of the model.                                       *)
(*                                                                         *)
(* Units: magnitudes are in tenths (5.5 is 55); instants are integer       *)
(* milliseconds of local wall-clock time since the epoch.  An optional     *)
(* value (None / NaN / NaT, or a name not bound yet) is <<>>, a present    *)
(* value v is <<v>>.                                                       *)
(***************************************************************************)
EXTENDS Integers, Sequences, FiniteSets

VARIABLES pc, fault, tz, data, i, earthquakes, df, time_filter, now,
          metrics, hourly_counts, hourly_series, rolling_avg, heatmap_data

vars == <<pc, fault, tz, data, i, earthquakes, df, time_filter, now,
          metrics, hourly_counts, hourly_series, rolling_avg, heatmap_data>>

(* ------------------------------ bounds -------------------------------- *)

\* Longest features array of a feed document.
MaxFeatures == 3

(* ------------------------- optional values ---------------------------- *)

None == <<>>
Some(v) == <<v>>
IsNone(o) == o = <<>>
Val(o) == o[1]

RECURSIVE SumSeq(_)
SumSeq(s) == IF s = <<>> THEN 0 ELSE Head(s) + SumSeq(Tail(s))

RECURSIVE MaxSeq(_)
MaxSeq(s) ==
    IF Len(s) = 1 THEN Head(s)
    ELSE LET m == MaxSeq(Tail(s)) IN IF Head(s) > m THEN Head(s) ELSE m

RECURSIVE MinSeq(_)
MinSeq(s) ==
    IF Len(s) = 1 THEN Head(s)
    ELSE LET m == MinSeq(Tail(s)) IN IF Head(s) < m THEN Head(s) ELSE m

(* ------------------------------ time ---------------------------------- *)

SecondMs == 1000
HourMs == 3600 * SecondMs

\* UTC offsets (seconds) of the machine's local time zone.
TzOffsets == {0, 1800}

\* datetime.fromtimestamp(ms / 1000.0): the local wall-clock instant.
FromTimestamp(ms, offset) ==
    LET seconds  == ms \div SecondMs      \* whole seconds since the epoch, UTC
        fraction == ms % SecondMs          \* the sub-second part
    IN  (seconds + offset) * SecondMs + fraction

\* pd.Timedelta(hours=h)
Timedelta(h) == h * HourMs

\* Series.dt.hour
HourOf(t) == (t \div HourMs) % 24

\* Series.dt.floor('H')
FloorHour(t) == t - (t % HourMs)

(* --------------------------- feed documents --------------------------- *)

Coords == <<-1200, 350, 100>>

Feature(hasTime, t, mag, place, coordinates) ==
    [hasTime |-> hasTime, time |-> t, mag |-> mag, place |-> place,
     coordinates |-> coordinates]

\* Features a feed document is built from: the well-formed ones ...
GoodFeatures ==
    { Feature(TRUE, 0,               Some(20),  "A", Coords),
      Feature(TRUE, HourMs,          None,      "B", Coords),
      Feature(TRUE, 2 * HourMs,      Some(55),  "C", Coords),
      Feature(TRUE, HourMs + 1,      Some(50),  "D", Coords),
      Feature(TRUE, 7 * HourMs + 1800 * SecondMs, Some(70), "E", Coords),
      Feature(TRUE, 8 * HourMs,      Some(-10), "F", Coords),
      Feature(TRUE, 1800 * SecondMs, Some(75),  "G", Coords),
      Feature(TRUE, 3 * HourMs,      Some(-15), "H", Coords) }

\* ... one without properties.time, and one with a 2-element coordinates array.
BadFeatures ==
    { Feature(FALSE, 0, Some(20), "X", Coords),
      Feature(TRUE, HourMs, Some(20), "Y", <<-1200, 350>>) }

Features == GoodFeatures \cup BadFeatures

SeqsUpTo(S, n) == UNION {[1..k -> S] : k \in 0..n}

NoData == [received |-> FALSE, hasFeatures |-> FALSE, features |-> <<>>]

\* What response.json() can be: a document with a features array, or one
\* without the 'features' key.
Documents ==
    { [received |-> TRUE, hasFeatures |-> TRUE, features |-> fs] :
         fs \in SeqsUpTo(Features, MaxFeatures) }
    \cup { [received |-> TRUE, hasFeatures |-> FALSE, features |-> <<>>] }

\* pd.Timestamp.now() values tried: one hour more than one day, two days and
\* seven days after the first event.
Nows == {25 * HourMs, 49 * HourMs, 170 * HourMs}

TimeFilters == {"Last 24 Hours", "Last 48 Hours", "Last 7 Days"}

(* ------------------------------ tables -------------------------------- *)

EventColumns == {"time", "magnitude", "place", "depth", "latitude", "longitude"}

\* df before line 41 has run.
NoTable == [bound |-> FALSE, cols |-> {}, dtype |-> "", rows |-> <<>>]

\* Row with coordinates[0] taken for the latitude and coordinates[1] for the
\* longitude.
RowLatLonSwapped(f, offset) ==
    [time      |-> FromTimestamp(f.time, offset),
     magnitude |-> f.mag,
     place     |-> f.place,
     depth     |-> f.coordinates[3],
     latitude  |-> f.coordinates[1],
     longitude |-> f.coordinates[2]]

\* The dict appended at lines 26-33.
Row(f, offset) ==
    [time      |-> FromTimestamp(f.time, offset),
     magnitude |-> f.mag,
     place     |-> f.place,
     depth     |-> f.coordinates[3],
     latitude  |-> f.coordinates[2],
     longitude |-> f.coordinates[1]]

\* pd.DataFrame(list of dicts): no columns at all for an empty list; the
\* magnitude column is float64 (None becomes NaN) unless every value is None,
\* which leaves an object column.
DataFrame(list) ==
    [bound |-> TRUE,
     cols  |-> IF list = <<>> THEN {} ELSE EventColumns,
     dtype |-> IF list = <<>> THEN ""
               ELSE IF \A k \in 1..Len(list) : IsNone(list[k].magnitude)
                    THEN "object" ELSE "float64",
     rows  |-> list]

RECURSIVE Compress(_, _)
\* The elements of rows at the positions where mask is TRUE, in order.
Compress(rows, mask) ==
    IF rows = <<>> THEN <<>>
    ELSE (IF Head(mask) THEN <<Head(rows)>> ELSE <<>>)
         \o Compress(Tail(rows), Tail(mask))

\* df[mask], mask a boolean Series: the rows where it is TRUE, in order;
\* columns and dtypes kept.
Select(t, mask) == [t EXCEPT !.rows = Compress(t.rows, mask)]

\* df[c] = values: the column c set, row by row, to the values.
AddColumn(t, c, values) ==
    [t EXCEPT !.cols = @ \cup {c},
              !.rows = [k \in 1..Len(t.rows) |->
                          [x \in DOMAIN t.rows[k] \cup {c} |->
                              IF x = c THEN values[k] ELSE t.rows[k][x]]]]

\* The column c as a sequence.
Column(t, c) == [k \in 1..Len(t.rows) |-> t.rows[k][c]]

(* ------------------------------ numbers ------------------------------- *)

\* A float result: NaN, or the exact quotient num / den.
NaN == [nan |-> TRUE, num |-> 0, den |-> 1]
Real(n, d) == [nan |-> FALSE, num |-> n, den |-> d]

\* The values of a column that are not null, in order.
NotNull(col) ==
    LET present == SelectSeq(col, LAMBDA o : ~IsNone(o))
    IN  [k \in 1..Len(present) |-> Val(present[k])]

\* Mean with a null counted as an observation of 0.
MeanCountingNulls(col) ==
    IF col = <<>> THEN NaN ELSE Real(SumSeq(NotNull(col)), Len(col))

\* Series.mean(): the mean of the non-null values, NaN when there is none.
Mean(col) ==
    LET xs == NotNull(col)
    IN  IF xs = <<>> THEN NaN ELSE Real(SumSeq(xs), Len(xs))

\* Max that reports 0 when no value is present.
MaxOrZero(col) ==
    LET xs == NotNull(col)
    IN  IF xs = <<>> THEN Real(0, 1) ELSE Real(MaxSeq(xs), 1)

\* Series.max(): the largest non-null value, NaN when there is none.
Max(col) ==
    LET xs == NotNull(col)
    IN  IF xs = <<>> THEN NaN ELSE Real(MaxSeq(xs), 1)

(* ---------------------------- key metrics ----------------------------- *)

\* 5.0, in tenths.
SignificantMagnitude == 50

\* df['magnitude'] >= 5.0: False for a null magnitude.
IsSignificant(r) ==
    ~IsNone(r.magnitude) /\ Val(r.magnitude) >= SignificantMagnitude

NoMetrics == [count |-> None, mean |-> None, max |-> None, significant |-> None]

\* Lines 59-65, read from the table t.  len(df) is shown first; df['magnitude']
\* raises KeyError on a table without that column.
MetricsOf(t) ==
    IF "magnitude" \notin t.cols
    THEN [ok |-> FALSE, err |-> "KeyError",
          val |-> [NoMetrics EXCEPT !.count = Some(Len(t.rows))]]
    ELSE [ok |-> TRUE, err |-> "",
          val |-> [count       |-> Some(Len(t.rows)),
                   mean        |-> Some(Mean(Column(t, "magnitude"))),
                   max         |-> Some(Max(Column(t, "magnitude"))),
                   significant |->
                      Some(Len(Select(t, [k \in 1..Len(t.rows) |->
                                            IsSignificant(t.rows[k])]).rows))]]

(* ---------------------------- marker size ----------------------------- *)

MarkerFactor == 5
DefaultMarker == 1

\* np.where(df['magnitude'] > 0, df['magnitude'] * 5, 1), in tenths.
MarkerSize(r) ==
    IF ~IsNone(r.magnitude) /\ Val(r.magnitude) > 0
    THEN Val(r.magnitude) * MarkerFactor
    ELSE DefaultMarker * 10

(* ------------------------- temporal aggregation ----------------------- *)

\* groupby(c).size(): the values of column c that occur, each with the number
\* of rows that hold it.
GroupSize(t, c) ==
    LET col == Column(t, c)
    IN  [v \in {col[k] : k \in 1..Len(col)} |->
            Cardinality({k \in 1..Len(col) : col[k] = v})]

\* Lines 134-135 on the table t: the table with its 'hour' column, and the
\* per-hour-of-day counts.
HourlyCountsOf(t) ==
    IF "time" \notin t.cols
    THEN [ok |-> FALSE, err |-> "KeyError", table |-> t, val |-> <<>>]
    ELSE LET t2 == AddColumn(t, "hour", [k \in 1..Len(t.rows) |->
                                           HourOf(t.rows[k].time)])
         IN  [ok |-> TRUE, err |-> "", table |-> t2,
              val |-> GroupSize(t2, "hour")]

\* pd.date_range(start, end, freq='H')
RECURSIVE DateRange(_, _)
DateRange(start, end) ==
    IF start > end THEN <<>>
    ELSE <<start>> \o DateRange(start + HourMs, end)

\* Reindex that keeps only the hours that were observed.
ReindexObservedOnly(grouped, index) ==
    LET seen == SelectSeq(index, LAMBDA key : key \in DOMAIN grouped)
    IN  [k \in 1..Len(seen) |-> [key |-> seen[k], count |-> grouped[seen[k]]]]

\* Series.reindex(index, fill_value=0)
Reindex(grouped, index) ==
    [k \in 1..Len(index) |->
        [key   |-> index[k],
         count |-> IF index[k] \in DOMAIN grouped THEN grouped[index[k]] ELSE 0]]

SetToSeq(S) ==
    LET RECURSIVE Build(_)
        Build(R) == IF R = {} THEN <<>>
                    ELSE LET x == CHOOSE y \in R : TRUE
                         IN  <<x>> \o Build(R \ {x})
    IN  Build(S)

\* Lines 162-169 on the table t.  The index of an empty groupby has min and
\* max NaT, and pd.date_range raises ValueError on a NaT end point.
HourlySeriesOf(t) ==
    IF "time" \notin t.cols
    THEN [ok |-> FALSE, err |-> "KeyError", table |-> t, val |-> <<>>]
    ELSE LET t2      == AddColumn(t, "hour_bin",
                                  [k \in 1..Len(t.rows) |->
                                      FloorHour(t.rows[k].time)])
             grouped == GroupSize(t2, "hour_bin")
             keys    == SetToSeq(DOMAIN grouped)
         IN  IF keys = <<>>
             THEN [ok |-> FALSE, err |-> "ValueError", table |-> t2, val |-> <<>>]
             ELSE [ok |-> TRUE, err |-> "", table |-> t2,
                   val |-> Reindex(grouped, DateRange(MinSeq(keys), MaxSeq(keys)))]

\* Rolling mean with min_periods=1: a partial window is averaged too.
RollingMeanPartial(series, w) ==
    [k \in 1..Len(series) |->
        [key   |-> series[k].key,
         value |-> IF k < w
                   THEN Real(SumSeq([j \in 1..k |-> series[j].count]), k)
                   ELSE Real(SumSeq([j \in 1..w |-> series[k - w + j].count]), w)]]

Window == 6

\* Line 170: Series.rolling(window=6).mean(); min_periods is the window, so
\* a position with fewer than 6 observations up to it is NaN.
RollingMean(series, w) ==
    [k \in 1..Len(series) |->
        [key   |-> series[k].key,
         value |-> IF k < w THEN NaN
                   ELSE Real(SumSeq([j \in 1..w |-> series[k - w + j].count]), w)]]

(* ----------------------- magnitude / hour histogram ------------------- *)

\* np.arange(-1, 8, 1), in tenths.
BinEdges == [k \in 1..9 |-> (k - 2) * 10]

\* [f"{i}-{i+1}" for i in range(-1, 7)]
BinLabels == <<"-1-0", "0-1", "1-2", "2-3", "3-4", "4-5", "5-6", "6-7">>

\* bins.searchsorted(x, side='left'): the number of edges below x.
SearchSortedLeft(edges, x) == Cardinality({k \in 1..Len(edges) : edges[k] < x})

\* pd.cut with right=False: bins closed on the left.
CutLeftClosed(m) ==
    IF IsNone(m) THEN None
    ELSE LET ids == Cardinality({k \in 1..Len(BinEdges) : BinEdges[k] <= Val(m)})
         IN  IF ids = 0 \/ ids = Len(BinEdges) THEN None
             ELSE Some(BinLabels[ids])

\* pd.cut(x, bins, labels) with the default right=True, include_lowest=False:
\* NaN for a null x and for an x at or below the first edge or above the last.
Cut(m) ==
    IF IsNone(m) THEN None
    ELSE LET ids == SearchSortedLeft(BinEdges, Val(m))
         IN  IF ids = 0 \/ ids = Len(BinEdges) THEN None
             ELSE Some(BinLabels[ids])

\* pd.crosstab(index, columns): the rows with a null in either are dropped;
\* one cell per (index value, column value) left, holding the number of rows.
Crosstab(t, r, c) ==
    LET kept == Select(t, [k \in 1..Len(t.rows) |-> ~IsNone(t.rows[k][c])])
        rs   == {kept.rows[k][r] : k \in 1..Len(kept.rows)}
        cs   == {Val(kept.rows[k][c]) : k \in 1..Len(kept.rows)}
    IN  [cell \in rs \X cs |->
            Cardinality({k \in 1..Len(kept.rows) :
                           /\ kept.rows[k][r] = cell[1]
                           /\ Val(kept.rows[k][c]) = cell[2]})]

\* Lines 187-190 on the table t.  pd.cut compares the values with the edges:
\* that raises TypeError on an object column of None; df['hour'] raises
\* KeyError on a table without the column line 134 adds.
HeatmapOf(t) ==
    IF "magnitude" \notin t.cols
    THEN [ok |-> FALSE, err |-> "KeyError", table |-> t, val |-> <<>>]
    ELSE IF t.dtype = "object" /\ t.rows # <<>>
    THEN [ok |-> FALSE, err |-> "TypeError", table |-> t, val |-> <<>>]
    ELSE LET t2 == AddColumn(t, "magnitude_bin",
                             [k \in 1..Len(t.rows) |-> Cut(t.rows[k].magnitude)])
         IN  IF "hour" \notin t2.cols
             THEN [ok |-> FALSE, err |-> "KeyError", table |-> t2, val |-> <<>>]
             ELSE [ok |-> TRUE, err |-> "", table |-> t2,
                   val |-> Crosstab(t2, "hour", "magnitude_bin")]

(* ------------------------------ the run ------------------------------- *)

Init ==
    /\ pc = "get"
    /\ fault = "none"
    /\ tz \in TzOffsets
    /\ data = NoData
    /\ i = 0
    /\ earthquakes = <<>>
    /\ df = NoTable
    /\ time_filter = None
    /\ now = None
    /\ metrics = NoMetrics
    /\ hourly_counts = None
    /\ hourly_series = None
    /\ rolling_avg = None
    /\ heatmap_data = None

\* The statements in script order.
Stages == <<"get", "for", "loop", "filter", "metrics", "marker", "hour",
            "series", "rolling", "heatmap", "done">>

Rank(label) == CHOOSE k \in 1..Len(Stages) : Stages[k] = label

\* The run is at the statement label and has not raised.
At(label) == pc = label /\ fault = "none"

\* An exception nothing catches: the run ends at this statement.
Raise(e) == pc' = pc /\ fault' = e

Goto(label) == pc' = label /\ fault' = fault

\* Lines 20-21: requests.get and response.json(); either may raise.
Get ==
    /\ At("get")
    /\ \/ \E d \in Documents : data' = d /\ Goto("for")
       \/ data' = data /\ Raise("FetchError")
    /\ UNCHANGED <<tz, i, earthquakes, df, time_filter, now, metrics,
                   hourly_counts, hourly_series, rolling_avg, heatmap_data>>

\* Lines 24-25: earthquakes = [] and the evaluation of data['features'].
ForInit ==
    /\ At("for")
    /\ earthquakes' = <<>>
    /\ IF data.hasFeatures
       THEN i' = 1 /\ Goto("loop")
       ELSE i' = i /\ Raise("KeyError")
    /\ UNCHANGED <<tz, data, df, time_filter, now, metrics,
                   hourly_counts, hourly_series, rolling_avg, heatmap_data>>

\* Loop body that skips a malformed feature and goes on with the next.
ForBodySkip ==
    /\ At("loop")
    /\ i <= Len(data.features)
    /\ LET feature == data.features[i]
       IN  IF ~feature.hasTime \/ Len(feature.coordinates) < 3
           THEN earthquakes' = earthquakes
           ELSE earthquakes' = Append(earthquakes, Row(feature, tz))
    /\ i' = i + 1
    /\ Goto("loop")
    /\ UNCHANGED <<tz, data, df, time_filter, now, metrics,
                   hourly_counts, hourly_series, rolling_avg, heatmap_data>>

\* Lines 25-33, one iteration: the dict is built field by field, so a missing
\* properties.time raises KeyError and a short coordinates array IndexError
\* before anything is appended.
ForBody ==
    /\ At("loop")
    /\ i <= Len(data.features)
    /\ LET feature == data.features[i]
       IN  IF ~feature.hasTime
           THEN UNCHANGED <<i, earthquakes>> /\ Raise("KeyError")
           ELSE IF Len(feature.coordinates) < 3
           THEN UNCHANGED <<i, earthquakes>> /\ Raise("IndexError")
           ELSE /\ earthquakes' = Append(earthquakes, Row(feature, tz))
                /\ i' = i + 1
                /\ Goto("loop")
    /\ UNCHANGED <<tz, data, df, time_filter, now, metrics,
                   hourly_counts, hourly_series, rolling_avg, heatmap_data>>

\* Lines 35 and 41: df = pd.DataFrame(earthquakes).
Return ==
    /\ At("loop")
    /\ i > Len(data.features)
    /\ df' = DataFrame(earthquakes)
    /\ Goto("filter")
    /\ UNCHANGED <<tz, data, i, earthquakes, time_filter, now, metrics,
                   hourly_counts, hourly_series, rolling_avg, heatmap_data>>

WindowHours(selection) ==
    IF selection = "Last 24 Hours" THEN 24
    ELSE IF selection = "Last 48 Hours" THEN 48
    ELSE 0

\* Filter that keeps an event exactly at the cutoff.
FilterOfInclusive(t, selection, n) ==
    IF selection \notin {"Last 24 Hours", "Last 48 Hours"}
    THEN [ok |-> TRUE, err |-> "", table |-> t]
    ELSE IF "time" \notin t.cols
    THEN [ok |-> FALSE, err |-> "KeyError", table |-> t]
    ELSE [ok |-> TRUE, err |-> "",
          table |-> Select(t, [k \in 1..Len(t.rows) |->
                                 t.rows[k].time
                                    >= n - Timedelta(WindowHours(selection))])]

\* Lines 50-54 on the table t.  Only the two shorter selections filter, and
\* df['time'] raises KeyError on a table without that column.
FilterOf(t, selection, n) ==
    IF selection \notin {"Last 24 Hours", "Last 48 Hours"}
    THEN [ok |-> TRUE, err |-> "", table |-> t]
    ELSE IF "time" \notin t.cols
    THEN [ok |-> FALSE, err |-> "KeyError", table |-> t]
    ELSE [ok |-> TRUE, err |-> "",
          table |-> Select(t, [k \in 1..Len(t.rows) |->
                                 t.rows[k].time
                                    > n - Timedelta(WindowHours(selection))])]

\* Lines 44-54: the selection is read, now is read once, df is replaced.
Filter ==
    /\ At("filter")
    /\ \E selection \in TimeFilters, n \in Nows :
          LET r == FilterOf(df, selection, n)
          IN  /\ time_filter' = Some(selection)
              /\ now' = Some(n)
              /\ df' = r.table
              /\ IF r.ok THEN Goto("metrics") ELSE Raise(r.err)
    /\ UNCHANGED <<tz, data, i, earthquakes, metrics,
                   hourly_counts, hourly_series, rolling_avg, heatmap_data>>

\* Lines 57-65.
Metrics ==
    /\ At("metrics")
    /\ LET r == MetricsOf(df)
       IN  /\ metrics' = r.val
           /\ IF r.ok THEN Goto("marker") ELSE Raise(r.err)
    /\ UNCHANGED <<tz, data, i, earthquakes, df, time_filter, now,
                   hourly_counts, hourly_series, rolling_avg, heatmap_data>>

\* Marker step that handles the non-positive magnitudes by overwriting the
\* magnitude column itself.
MarkerClampInPlace ==
    /\ At("marker")
    /\ df' = AddColumn(AddColumn(df, "marker_size",
                                 [k \in 1..Len(df.rows) |->
                                     MarkerSize(df.rows[k])]),
                       "magnitude",
                       [k \in 1..Len(df.rows) |->
                           IF ~IsNone(df.rows[k].magnitude)
                              /\ Val(df.rows[k].magnitude) > 0
                           THEN df.rows[k].magnitude ELSE Some(0)])
    /\ Goto("hour")
    /\ UNCHANGED <<tz, data, i, earthquakes, time_filter, now, metrics,
                   hourly_counts, hourly_series, rolling_avg, heatmap_data>>

\* Lines 68-70.
Marker ==
    /\ At("marker")
    /\ df' = AddColumn(df, "marker_size",
                       [k \in 1..Len(df.rows) |-> MarkerSize(df.rows[k])])
    /\ Goto("hour")
    /\ UNCHANGED <<tz, data, i, earthquakes, time_filter, now, metrics,
                   hourly_counts, hourly_series, rolling_avg, heatmap_data>>

\* Lines 134-135.
HourOfDay ==
    /\ At("hour")
    /\ LET r == HourlyCountsOf(df)
       IN  /\ df' = r.table
           /\ hourly_counts' = IF r.ok THEN Some(r.val) ELSE None
           /\ IF r.ok THEN Goto("series") ELSE Raise(r.err)
    /\ UNCHANGED <<tz, data, i, earthquakes, time_filter, now, metrics,
                   hourly_series, rolling_avg, heatmap_data>>

\* Lines 162-169.
HourlySeries ==
    /\ At("series")
    /\ LET r == HourlySeriesOf(df)
       IN  /\ df' = r.table
           /\ hourly_series' = IF r.ok THEN Some(r.val) ELSE None
           /\ IF r.ok THEN Goto("rolling") ELSE Raise(r.err)
    /\ UNCHANGED <<tz, data, i, earthquakes, time_filter, now, metrics,
                   hourly_counts, rolling_avg, heatmap_data>>

\* Line 170.
Rolling ==
    /\ At("rolling")
    /\ rolling_avg' = Some(RollingMean(Val(hourly_series), Window))
    /\ Goto("heatmap")
    /\ UNCHANGED <<tz, data, i, earthquakes, df, time_filter, now, metrics,
                   hourly_counts, hourly_series, heatmap_data>>

\* Lines 187-190.
Heatmap ==
    /\ At("heatmap")
    /\ LET r == HeatmapOf(df)
       IN  /\ df' = r.table
           /\ heatmap_data' = IF r.ok THEN Some(r.val) ELSE None
           /\ IF r.ok THEN Goto("done") ELSE Raise(r.err)
    /\ UNCHANGED <<tz, data, i, earthquakes, time_filter, now, metrics,
                   hourly_counts, hourly_series, rolling_avg>>

\* Lines 199-200: the refresh button runs the script again from the top.
Rerun ==
    /\ At("done")
    /\ pc' = "get"
    /\ fault' = "none"
    /\ data' = NoData
    /\ i' = 0
    /\ earthquakes' = <<>>
    /\ df' = NoTable
    /\ time_filter' = None
    /\ now' = None
    /\ metrics' = NoMetrics
    /\ hourly_counts' = None
    /\ hourly_series' = None
    /\ rolling_avg' = None
    /\ heatmap_data' = None
    /\ UNCHANGED tz

Next ==
    \/ Get
    \/ ForInit
    \/ ForBody
    \/ Return
    \/ Filter
    \/ Metrics
    \/ Marker
    \/ HourOfDay
    \/ HourlySeries
    \/ Rolling
    \/ Heatmap
    \/ Rerun

Spec == Init /\ [][Next]_vars

(* ============================== claims ================================ *)

\* The statement label has completed: the run is past it.
After(label) == Rank(pc) > Rank(label)

RECURSIVE SumOver(_, _)
\* The sum of f over the finite set S.
SumOver(S, f) ==
    IF S = {} THEN 0
    ELSE LET x == CHOOSE y \in S : TRUE IN f[x] + SumOver(S \ {x}, f)

\* The table restricted to the columns cs.
Project(t, cs) ==
    [t EXCEPT !.cols = @ \cap cs,
              !.rows = [k \in 1..Len(t.rows) |->
                          [x \in DOMAIN t.rows[k] \cap cs |-> t.rows[k][x]]]]

\* The rows of df restricted to the six event fields.
Events == Project(df, EventColumns).rows

\* C1: fetch_earthquake_data returns one row per feature of the document, in
\* the order of the features array: row k holds feature k's instant
\* (properties.time milliseconds, as local time), mag, place, and
\* coordinates[0], [1], [2] as longitude, latitude, depth.
C1_OneRowPerFeature ==
    pc = "filter" =>
        /\ df.bound
        /\ Len(Events) = Len(data.features)
        /\ \A k \in 1..Len(data.features) :
              LET f == data.features[k]
                  r == Events[k]
              IN  /\ r.time = f.time + tz * 1000
                  /\ r.magnitude = f.mag
                  /\ r.place = f.place
                  /\ r.longitude = f.coordinates[1]
                  /\ r.latitude = f.coordinates[2]
                  /\ r.depth = f.coordinates[3]

\* Reached: a table of three different rows, not in time order, has been
\* returned.
C1_Witness ==
    /\ pc = "filter"
    /\ Len(df.rows) = 3
    /\ df.rows[1].place = "C"
    /\ df.rows[2].place = "A"
    /\ df.rows[3].place = "B"

\* C2: once the filter has run, df is exactly the subsequence of the fetched
\* table with time strictly after now - 24 h ('Last 24 Hours') or now - 48 h
\* ('Last 48 Hours'), now being the one value read before filtering; for
\* 'Last 7 Days' it is the fetched table unchanged, however old its events.
C2_TimeWindow ==
    After("filter") =>
        LET n  == Val(now)
            tf == Val(time_filter)
        IN  /\ tf = "Last 24 Hours" =>
                 Events = SelectSeq(earthquakes,
                                    LAMBDA e : e.time > n - 24 * 3600 * 1000)
            /\ tf = "Last 48 Hours" =>
                 Events = SelectSeq(earthquakes,
                                    LAMBDA e : e.time > n - 48 * 3600 * 1000)
            /\ tf = "Last 7 Days" => Events = earthquakes

\* Reached: a 24-hour filter has dropped an event exactly at the cutoff and
\* kept a later one.
C2_Witness ==
    /\ After("filter")
    /\ time_filter = Some("Last 24 Hours")
    /\ \E k \in 1..Len(earthquakes) :
          earthquakes[k].time = Val(now) - 24 * 3600 * 1000
    /\ Len(df.rows) >= 1
    /\ Len(df.rows) < Len(earthquakes)

\* The positions of df whose magnitude is not null.
Measured == {k \in 1..Len(df.rows) : ~IsNone(df.rows[k].magnitude)}

MagnitudeAt == [k \in Measured |-> Val(df.rows[k].magnitude)]

\* C3: the metrics are: count, the number of rows whatever their magnitude;
\* significant, the number of rows with a non-null magnitude >= 5.0; mean and
\* max, the mean and the maximum of the non-null magnitudes.  Magnitudes
\* 2.0, null, 5.5 give 3, 3.75, 5.5 and 1.
C3_Metrics ==
    After("metrics") =>
        /\ metrics.count = Some(Len(df.rows))
        /\ metrics.significant =
              Some(Cardinality({k \in Measured : MagnitudeAt[k] >= 50}))
        /\ Measured # {} =>
              LET mean == Val(metrics.mean)
                  max  == Val(metrics.max)
              IN  /\ ~mean.nan
                  /\ mean.num * Cardinality(Measured)
                        = SumOver(Measured, MagnitudeAt) * mean.den
                  /\ ~max.nan
                  /\ max.den = 1
                  /\ \E k \in Measured : MagnitudeAt[k] = max.num
                  /\ \A k \in Measured : MagnitudeAt[k] <= max.num
        /\ Column(df, "magnitude") = <<Some(20), None, Some(55)>> =>
              /\ metrics.count = Some(3)
              /\ 100 * Val(metrics.mean).num = 3750 * Val(metrics.mean).den
              /\ Val(metrics.max) = Real(55, 1)
              /\ metrics.significant = Some(1)

\* Reached: the metrics of the table with magnitudes 2.0, null, 5.5.
C3_Witness ==
    /\ After("metrics")
    /\ Len(df.rows) = 3
    /\ Column(df, "magnitude") = <<Some(20), None, Some(55)>>

\* A table with rows whose magnitudes are all null.
AllNull == df.rows # <<>> /\ Measured = {}

\* C4: on a non-empty table whose magnitudes are all null the metrics do not
\* raise: count is the number of rows, significant is 0, mean and max are
\* NaN, and the run goes on to the statements after the metrics.
C4_AllNullMetrics ==
    AllNull =>
        /\ pc \in {"metrics", "marker"} => fault = "none"
        /\ After("metrics") =>
              /\ metrics.count = Some(Len(df.rows))
              /\ metrics.significant = Some(0)
              /\ metrics.mean = Some(NaN)
              /\ metrics.max = Some(NaN)

\* Reached: the marker sizes of a two-row all-null table have been computed.
C4_Witness ==
    /\ AllNull
    /\ Len(df.rows) = 2
    /\ After("marker")
    /\ "marker_size" \in df.cols

\* The instants of the rows of df.
Times == {df.rows[k].time : k \in 1..Len(df.rows)}

\* C5: for a non-empty table the hourly series is computed, and its keys are
\* the whole hours from the hour of the earliest event to the hour of the
\* latest, each one hour after the one before; the value at a key is the
\* number of events within that hour, 0 when there is none, and the values
\* sum to the number of events.
C5_HourlySeries ==
    /\ (pc = "series" /\ df.rows # <<>>) => fault = "none"
    /\ After("series") =>
          LET s     == Val(hourly_series)
              first == s[1].key
              last  == s[Len(s)].key
          IN  /\ Len(s) >= 1
              /\ \A k \in 1..Len(s) : s[k].key % (3600 * 1000) = 0
              /\ \E t \in Times : first <= t /\ t < first + 3600 * 1000
              /\ \A t \in Times : first <= t
              /\ \E t \in Times : last <= t /\ t < last + 3600 * 1000
              /\ \A t \in Times : t < last + 3600 * 1000
              /\ \A k \in 1..(Len(s) - 1) : s[k + 1].key - s[k].key = 3600 * 1000
              /\ \A k \in 1..Len(s) :
                    s[k].count =
                       Cardinality({j \in 1..Len(df.rows) :
                                      /\ s[k].key <= df.rows[j].time
                                      /\ df.rows[j].time < s[k].key + 3600 * 1000})
              /\ SumOver(1..Len(s), [k \in 1..Len(s) |-> s[k].count])
                    = Len(df.rows)

\* Reached: a series with an hour of two events and an hour of none.
C5_Witness ==
    /\ After("series")
    /\ \E k \in 1..Len(Val(hourly_series)) : Val(hourly_series)[k].count = 0
    /\ \E k \in 1..Len(Val(hourly_series)) : Val(hourly_series)[k].count = 2

\* C6: when the table that reaches the aggregation is empty, no statement of
\* the run raises and the hourly series is the empty series.
C6_EmptyTableNoFault ==
    (df.bound /\ df.rows = <<>>) =>
        /\ fault = "none"
        /\ After("series") => hourly_series = Some(<<>>)

\* C7: the rolling average has the keys of the hourly series in the same
\* order; its first 5 values are NaN; from the 6th on, the value is the mean
\* of the count at that hour and at the 5 hours before it.
C7_RollingAverage ==
    After("rolling") =>
        LET s == Val(hourly_series)
            r == Val(rolling_avg)
        IN  /\ Len(r) = Len(s)
            /\ \A k \in 1..Len(s) :
                  /\ r[k].key = s[k].key
                  /\ k <= 5 => r[k].value = NaN
                  /\ k >= 6 =>
                        /\ ~r[k].value.nan
                        /\ r[k].value.num * 6 =
                              SumOver((k - 5)..k, [j \in 1..Len(s) |-> s[j].count])
                                 * r[k].value.den

\* Reached: a rolling average with two full windows of different means.
C7_Witness ==
    /\ After("rolling")
    /\ Len(Val(rolling_avg)) >= 8
    /\ Val(rolling_avg)[6].value.num = 2
    /\ Val(rolling_avg)[8].value.num = 1

\* The label "i-(i+1)" of the bin numbered i, i in -1..6.
LabelOf(b) == BinLabels[b + 2]

\* The sum of the cells of the histogram.
CellSum == SumOver(DOMAIN Val(heatmap_data), Val(heatmap_data))

\* C8 as stated: an event with magnitude m in [-1, 7) is counted in the bin
\* [i, i+1) with i = floor(m), every other event is omitted, and the cells
\* sum to the number of events with magnitude in [-1, 7).
C8_LeftClosedBins ==
    After("heatmap") =>
        /\ \A k \in 1..Len(df.rows) :
              LET m == df.rows[k].magnitude
              IN  IF ~IsNone(m) /\ -10 <= Val(m) /\ Val(m) < 70
                  THEN df.rows[k].magnitude_bin = Some(LabelOf(Val(m) \div 10))
                  ELSE df.rows[k].magnitude_bin = None
        /\ CellSum = Cardinality({k \in Measured :
                                    -10 <= MagnitudeAt[k] /\ MagnitudeAt[k] < 70})

\* The bin (i, i+1] that holds the magnitude v, if any.
BinOf(v) == {b \in -1..6 : b * 10 < v /\ v <= (b + 1) * 10}

\* C8 amended: whenever the histogram is computed, an event with magnitude m
\* in (-1, 7] is counted in the bin (i, i+1] labelled "i-(i+1)" (2.0 in
\* "1-2", 7.0 in "6-7"), an event with m <= -1, m > 7 or a null magnitude is
\* omitted, each cell holds the number of events of its hour of day and bin,
\* and the cells sum to the number of events with magnitude in (-1, 7].
C8_RightClosedBins ==
    After("heatmap") =>
        /\ \A k \in 1..Len(df.rows) :
              LET m == df.rows[k].magnitude
              IN  IF ~IsNone(m) /\ BinOf(Val(m)) # {}
                  THEN \E b \in BinOf(Val(m)) :
                          df.rows[k].magnitude_bin = Some(LabelOf(b))
                  ELSE df.rows[k].magnitude_bin = None
        /\ \A cell \in DOMAIN Val(heatmap_data) :
              Val(heatmap_data)[cell] =
                 Cardinality({k \in Measured :
                                /\ HourOf(df.rows[k].time) = cell[1]
                                /\ \E b \in BinOf(MagnitudeAt[k]) :
                                      LabelOf(b) = cell[2]})
        /\ CellSum = Cardinality({k \in Measured :
                                    -10 < MagnitudeAt[k] /\ MagnitudeAt[k] <= 70})

\* Reached: a histogram with 2.0 counted in "1-2" and 7.0 in "6-7", and an
\* event of magnitude -1.0 left out.
C8_Witness ==
    /\ After("heatmap")
    /\ \E k \in 1..Len(df.rows) :
          /\ df.rows[k].magnitude = Some(20)
          /\ df.rows[k].magnitude_bin = Some("1-2")
    /\ \E k \in 1..Len(df.rows) :
          /\ df.rows[k].magnitude = Some(70)
          /\ df.rows[k].magnitude_bin = Some("6-7")
    /\ \E k \in 1..Len(df.rows) :
          /\ df.rows[k].magnitude = Some(-10)
          /\ df.rows[k].magnitude_bin = None

\* Nothing downstream of the fetch has run.
NothingDownstream ==
    /\ ~df.bound
    /\ time_filter = None
    /\ now = None
    /\ metrics = NoMetrics
    /\ hourly_counts = None
    /\ hourly_series = None
    /\ rolling_avg = None
    /\ heatmap_data = None

\* The document cannot be normalized.
Malformed ==
    \/ ~data.hasFeatures
    \/ \E k \in 1..Len(data.features) :
          \/ ~data.features[k].hasTime
          \/ Len(data.features[k].coordinates) < 3

\* C9: a failed fetch, a document without 'features', or one feature without
\* its time or with fewer than 3 coordinates makes the fetch raise: df is
\* never bound, nothing downstream runs, and a bound df has a row for every
\* feature (none is skipped).
C9_FailFast ==
    /\ (fault # "none" /\ pc \in {"get", "for", "loop"}) => NothingDownstream
    /\ Malformed => (NothingDownstream /\ pc \in {"get", "for", "loop"})
    /\ (pc = "loop" /\ i > Len(data.features)) => ~Malformed
    /\ df.bound => (~Malformed /\ Len(earthquakes) = Len(data.features))

\* Reached: the loop has raised on a malformed feature after it had built
\* rows from the features before it.
C9_Witness ==
    /\ pc = "loop"
    /\ fault \in {"KeyError", "IndexError"}
    /\ Len(earthquakes) >= 1
    /\ ~df.bound

\* The table the filter returned.
Filtered == FilterOf(DataFrame(earthquakes), Val(time_filter), Val(now)).table

\* C10 as stated: every view the run has computed is what that view gives
\* when computed alone from the filtered table, and the events are unchanged.
C10_ViewsFromFilteredTable ==
    After("filter") =>
        /\ Project(df, EventColumns) = Filtered
        /\ After("metrics") =>
              MetricsOf(Filtered).ok /\ MetricsOf(Filtered).val = metrics
        /\ After("hour") =>
              /\ HourlyCountsOf(Filtered).ok
              /\ HourlyCountsOf(Filtered).val = Val(hourly_counts)
        /\ After("series") =>
              /\ HourlySeriesOf(Filtered).ok
              /\ HourlySeriesOf(Filtered).val = Val(hourly_series)
        /\ After("rolling") =>
              RollingMean(HourlySeriesOf(Filtered).val, Window) = Val(rolling_avg)
        /\ After("heatmap") =>
              /\ HeatmapOf(Filtered).ok
              /\ HeatmapOf(Filtered).val = Val(heatmap_data)

\* The filtered table with the 'hour' column of line 134.
FilteredWithHour == HourlyCountsOf(Filtered).table

\* C10 amended: the metrics, the hour-of-day counts and the hourly series
\* with its rolling average are each what they are when computed alone from
\* the filtered table, and no view changes the rows or the six event fields;
\* the histogram is what it is when computed from the filtered table with
\* the 'hour' column the hour-of-day step has added, and raises KeyError
\* when computed from the filtered table alone.
C10_ViewsExceptHistogram ==
    After("filter") =>
        /\ Project(df, EventColumns) = Filtered
        /\ After("metrics") =>
              MetricsOf(Filtered).ok /\ MetricsOf(Filtered).val = metrics
        /\ After("hour") =>
              /\ HourlyCountsOf(Filtered).ok
              /\ HourlyCountsOf(Filtered).val = Val(hourly_counts)
        /\ After("series") =>
              /\ HourlySeriesOf(Filtered).ok
              /\ HourlySeriesOf(Filtered).val = Val(hourly_series)
        /\ After("rolling") =>
              RollingMean(HourlySeriesOf(Filtered).val, Window) = Val(rolling_avg)
        /\ After("heatmap") =>
              /\ HeatmapOf(FilteredWithHour).ok
              /\ HeatmapOf(FilteredWithHour).val = Val(heatmap_data)
              /\ ~HeatmapOf(Filtered).ok
              /\ HeatmapOf(Filtered).err = "KeyError"

\* Reached: a run that has computed every view of a table of several events,
\* one of them with a non-positive magnitude.
C10_Witness ==
    /\ pc = "done"
    /\ Len(df.rows) >= 2
    /\ DOMAIN Val(heatmap_data) # {}
    /\ \E k \in 1..Len(df.rows) : df.rows[k].magnitude = Some(-10)

=============================================================================
